---------------------------- MODULE Spec2Model ----------------------------
(***************************************************************************)
(* A model of the YAML set-operation core of config-utils                  *)
(* (src/tools/config-utils/cli.py): flatten_dict, unflatten_dict,          *)
(* make_hashable, perform_set_operation and load_yaml_file,                *)
(* and of the report comparison of src/compare_runs.py:                    *)
(* _extract_template_args, index_rows, compare_reports, diff, pct_change.  *)
(*                                                                         *)
(* Python values are tagged tuples, the tag first:                         *)
(*   <<"int", n>>          a scalar                                        *)
(*   <<"bool", b>>         a scalar                                        *)
(*   <<"str", s>>          a string, s a sequence of one-character strings *)
(*   <<"list", items>>     a list of plain values                          *)
(*   <<"dict", entries>>   a dict as a plain value: entries is the         *)
(*                         sequence of <<key, value>> pairs in insertion   *)
(*                         order                                           *)
(*   <<"ref", id>>         a reference to the dict object heap[id]         *)
(*   <<"tuple", items>>    a tuple (only make_hashable builds them)        *)
(* Dict objects live in a heap, because unflatten_dict stores the caller's *)
(* objects in its result and writes through them.  A string key is a       *)
(* sequence of characters, so that joining with the separator and          *)
(* str.split are computed, not assumed.                                    *)
(***************************************************************************)
EXTENDS Integers, Sequences, FiniteSets, TLC

VARIABLES
    heap,          \* the dict objects: heap[id] is an object's entries
    doc1, doc2,    \* the two documents as parsed, before any call
    file1_data,    \* reference to the first document's root object
    file2_data,    \* reference to the second document's root object
    operation,     \* perform_set_operation's operation argument
    compare_mode,  \* perform_set_operation's compare_mode argument
    depth,         \* the depth argument
    flat,          \* the dict returned by a direct flatten_dict call; after
                   \* perform_set_operation, <<"flat", entries>>: its dict
                   \* `result` as it was before unflattening
    result,        \* the value returned by the last call
    hashed,        \* the canonical forms make_hashable returned
    raised,        \* TRUE when the last call ended in an exception
    exit_code,     \* the exit status of the command, None while it runs
    stdout,        \* the document written to standard output, None if none
    stderr,        \* the message written to standard error, "" if none
    html_text,     \* _extract_template_args's argument
    base_rows,     \* the rows load_report gives for the base report
    curr_rows,     \* the rows load_report gives for the current report
    base_html_rows, \* load_html_feature_rows's mapping for the base run
    curr_html_rows, \* load_html_feature_rows's mapping for the current run
    base, curr,    \* the arguments of diff and pct_change
    pc             \* position of the caller

vars == <<heap, doc1, doc2, file1_data, file2_data, operation, compare_mode,
          depth, flat, result, hashed, raised, exit_code, stdout, stderr,
          html_text, base_rows, curr_rows, base_html_rows, curr_html_rows,
          base, curr, pc>>

\* The variables of compare_runs.py, which cli.py never touches.
compare_vars == <<html_text, base_rows, curr_rows, base_html_rows,
                  curr_html_rows, base, curr>>

\* The variables of cli.py that compare_runs.py never touches.
config_vars == <<heap, doc1, doc2, file1_data, file2_data, operation,
                 compare_mode, depth, flat, hashed, exit_code, stdout, stderr>>

----------------------------------------------------------------------------
(* Bounds of the model. *)

\* Largest scalar value of a document.
MaxInt == 2
\* Total number of key/value entries of a document of the flatten runs.
MaxEntries == 3
\* Largest depth argument.
MaxDepth == 3
\* Total number of elements and entries of a value given to make_hashable.
MaxSize == 2
\* Number of entries of one document of a set operation.
MaxDocEntries == 2
\* Total number of entries of two different documents of a set operation.
MaxPairEntries == 3
\* Largest depth argument of a set operation.
MaxOpDepth == 2
\* The commands' documents have at most MaxCliEntries entries.
MaxCliEntries == 1
\* The texts given to _extract_template_args have at most MaxTextLen
\* characters after the assignment.
MaxTextLen == 8
\* The finite numbers given to diff and pct_change are the integers from
\* -MaxNum to MaxNum.
MaxNum == 2
\* The reports given to compare_reports have at most MaxRows rows.
MaxRows == 2

----------------------------------------------------------------------------
(* Strings. *)

sep == "."

None == <<"none">>

\* No call of compare_runs.py is under way.
NoCompareRun ==
    /\ html_text = None
    /\ base_rows = None
    /\ curr_rows = None
    /\ base_html_rows = None
    /\ curr_html_rows = None
    /\ base = None
    /\ curr = None

\* str.split(sep): the segments between separators; "" splits to [""].
RECURSIVE split(_)
split(s) ==
    IF Len(s) = 0 THEN << <<>> >>
    ELSE LET rest == split(Tail(s))
         IN  IF Head(s) = sep
             THEN << <<>> >> \o rest
             ELSE << <<Head(s)>> \o Head(rest) >> \o Tail(rest)

\* The characters in code-point order ('.' is 46, 'a' is 97, 'b' is 98).
CodePoints ==
    <<".", "a", "b", "c", "d", "e", "f", "g", "h", "i", "j", "k", "l", "m",
      "n", "o", "p", "q", "r", "s", "t", "u", "v", "w", "x", "y", "z">>

ord(c) == CHOOSE i \in 1..Len(CodePoints) : CodePoints[i] = c

\* s < t for two strings, as Python compares them.
RECURSIVE StrLess(_, _)
StrLess(s, t) ==
    IF Len(t) = 0 THEN FALSE
    ELSE IF Len(s) = 0 THEN TRUE
    ELSE IF Head(s) = Head(t) THEN StrLess(Tail(s), Tail(t))
    ELSE ord(Head(s)) < ord(Head(t))

----------------------------------------------------------------------------
(* Python dicts: a sequence of <<key, value>> pairs with distinct keys, in *)
(* insertion order.                                                        *)

DictHas(d, k) == \E i \in 1..Len(d) : d[i][1] = k

DictGet(d, k) == d[CHOOSE i \in 1..Len(d) : d[i][1] = k][2]

DictKeys(d) == { d[i][1] : i \in 1..Len(d) }

\* d[k] = v: an existing key keeps its position, a new one is appended.
DictSet(d, k, v) ==
    IF DictHas(d, k)
    THEN [i \in 1..Len(d) |-> IF d[i][1] = k THEN <<k, v>> ELSE d[i]]
    ELSE Append(d, <<k, v>>)

\* d.update(e)
RECURSIVE DictUpdate(_, _)
DictUpdate(d, e) ==
    IF Len(e) = 0 THEN d
    ELSE DictUpdate(DictSet(d, e[1][1], e[1][2]), Tail(e))

----------------------------------------------------------------------------
(* The heap. *)

IsDict(v) == v[1] = "ref"

\* obj[k] = v on the dict object id.
SetItem(h, id, k, v) == [h EXCEPT ![id] = DictSet(@, k, v)]

\* A plain value moved into the heap: every dict becomes an object of its own.
RECURSIVE Store(_, _)
RECURSIVE StoreEntries(_, _, _)
Store(h, v) ==
    IF v[1] = "dict"
    THEN LET r == StoreEntries(h, v[2], <<>>)
         IN  <<Append(r[1], r[2]), <<"ref", Len(r[1]) + 1>>>>
    ELSE <<h, v>>
StoreEntries(h, es, acc) ==
    IF Len(es) = 0 THEN <<h, acc>>
    ELSE LET r == Store(h, es[1][2])
         IN  StoreEntries(r[1], Tail(es), Append(acc, <<es[1][1], r[2]>>))

\* The plain value a heap value stands for.
RECURSIVE Load(_, _)
Load(h, v) ==
    IF v[1] = "ref"
    THEN <<"dict", [i \in 1..Len(h[v[2]]) |->
                      <<h[v[2]][i][1], Load(h, h[v[2]][i][2])>>]>>
    ELSE v

\* Python's == on plain values: dicts compare without regard to order,
\* lists element by element, values of different types are unequal.
RECURSIVE PyEq(_, _)
PyEq(v, w) ==
    IF v[1] # w[1] THEN FALSE
    ELSE IF v[1] = "dict"
    THEN /\ DictKeys(v[2]) = DictKeys(w[2])
         /\ \A k \in DictKeys(v[2]) : PyEq(DictGet(v[2], k), DictGet(w[2], k))
    ELSE IF v[1] \in {"list", "tuple"}
    THEN /\ Len(v[2]) = Len(w[2])
         /\ \A i \in 1..Len(v[2]) : PyEq(v[2][i], w[2][i])
    ELSE v = w

----------------------------------------------------------------------------
(* flatten_dict *)

RECURSIVE flatten_dict(_, _, _, _)
RECURSIVE FlattenItems(_, _, _, _, _)

\* FlattenItems stopping one level late (new_depth > depth).
RECURSIVE FlattenItems_stops_late(_, _, _, _, _)
FlattenItems_stops_late(h, es, dpth, parent_key, items) ==
    IF Len(es) = 0 THEN items
    ELSE
      LET key       == es[1][1]
          value     == es[1][2]
          new_key   == IF Len(parent_key) > 0
                       THEN parent_key \o <<sep>> \o key
                       ELSE key
          new_depth == Len(split(new_key))
          items1    ==
              IF dpth > 0 /\ new_depth > dpth
              THEN DictSet(items, new_key, value)
              ELSE IF IsDict(value) /\ Len(h[value[2]]) > 0
              THEN DictUpdate(items, flatten_dict(h, value, dpth, new_key))
              ELSE DictSet(items, new_key, value)
      IN  FlattenItems_stops_late(h, Tail(es), dpth, parent_key, items1)

\* The loop of flatten_dict over data.items(), items being the accumulator.
FlattenItems(h, es, dpth, parent_key, items) ==
    IF Len(es) = 0 THEN items
    ELSE
      LET key       == es[1][1]
          value     == es[1][2]
          new_key   == IF Len(parent_key) > 0
                       THEN parent_key \o <<sep>> \o key
                       ELSE key
          new_depth == Len(split(new_key))
          items1    ==
              IF dpth > 0 /\ new_depth >= dpth
              THEN DictSet(items, new_key, value)
              ELSE IF IsDict(value) /\ Len(h[value[2]]) > 0
              THEN DictUpdate(items, flatten_dict(h, value, dpth, new_key))
              ELSE DictSet(items, new_key, value)
      IN  FlattenItems(h, Tail(es), dpth, parent_key, items1)

\* flatten_dict(data, depth, parent_key): the entries of the returned dict.
\* The values are the caller's own objects, not copies.
flatten_dict(h, data, dpth, parent_key) ==
    IF dpth = 1 /\ Len(parent_key) = 0
    THEN h[data[2]]
    ELSE FlattenItems(h, h[data[2]], dpth, parent_key, <<>>)

----------------------------------------------------------------------------
(* unflatten_dict *)

\* The inner loop over parts[:-1].  A current that is not a dict makes
\* `part not in current`, `current[part] = {}` or `current[part]` raise
\* TypeError.
RECURSIVE Descend(_, _, _)
Descend(h, current, parts) ==
    IF Len(parts) = 0 THEN [heap |-> h, current |-> current, raised |-> FALSE]
    ELSE IF ~IsDict(current)
    THEN [heap |-> h, current |-> current, raised |-> TRUE]
    ELSE LET part == Head(parts)
             h1   == IF ~DictHas(h[current[2]], part)
                     THEN SetItem(Append(h, <<>>), current[2], part,
                                  <<"ref", Len(h) + 1>>)
                     ELSE h
         IN  Descend(h1, DictGet(h1[current[2]], part), Tail(parts))

\* The outer loop over data.items(); res is the result object.
RECURSIVE UnflattenLoop(_, _, _)
UnflattenLoop(h, res, data) ==
    IF Len(data) = 0
    THEN [heap |-> h, result |-> <<"ref", res>>, raised |-> FALSE]
    ELSE
      LET parts == split(data[1][1])
          w     == Descend(h, <<"ref", res>>, SubSeq(parts, 1, Len(parts) - 1))
      IN  IF w.raised \/ ~IsDict(w.current)
          THEN [heap |-> w.heap, result |-> None, raised |-> TRUE]
          ELSE UnflattenLoop(
                   SetItem(w.heap, w.current[2], parts[Len(parts)], data[1][2]),
                   res, Tail(data))

\* unflatten_dict(data): data is a dict, given by its entries.
unflatten_dict(h, data) == UnflattenLoop(Append(h, <<>>), Len(h) + 1, data)

----------------------------------------------------------------------------
(* make_hashable *)

\* sorted() on (key, canonical value) pairs: tuples compare by their first
\* component, and the keys of one dict are distinct.
RECURSIVE sorted(_)
sorted(pairs) ==
    IF Len(pairs) = 0 THEN <<>>
    ELSE LET i == CHOOSE i \in 1..Len(pairs) :
                      \A j \in 1..Len(pairs) :
                          j # i => StrLess(pairs[i][2][1][2], pairs[j][2][1][2])
         IN  <<pairs[i]>> \o
             sorted([j \in 1..(Len(pairs) - 1) |->
                       IF j < i THEN pairs[j] ELSE pairs[j + 1]])

\* make_hashable(value) on a plain value.  A dict becomes the tuple of its
\* (key, canonical value) tuples sorted by key, a list the tuple of its
\* canonical items, anything else is returned as it is.  (The branch for
\* Python sets is left out: no document of the model holds a set.)
RECURSIVE make_hashable(_)
make_hashable(value) ==
    IF value[1] = "dict"
    THEN <<"tuple",
           sorted([i \in 1..Len(value[2]) |->
                     <<"tuple", << <<"str", value[2][i][1]>>,
                                   make_hashable(value[2][i][2]) >> >>])>>
    ELSE IF value[1] = "list"
    THEN <<"tuple", [i \in 1..Len(value[2]) |-> make_hashable(value[2][i])]>>
    ELSE value

----------------------------------------------------------------------------
(* perform_set_operation *)

\* flat1 and flat2: both documents flattened to the depth.
flat1(h, f1, dpth) == flatten_dict(h, f1, dpth, <<>>)
flat2(h, f2, dpth) == flatten_dict(h, f2, dpth, <<>>)

\* result_keys with the diff branch keeping every key of the first document.
result_keys_diff_keeps_all(op, keys1, keys2) ==
    IF op = "union" THEN keys1 \cup keys2
    ELSE IF op = "intersect" THEN keys1 \cap keys2
    ELSE IF op = "diff" THEN keys1
    ELSE IF op = "rdiff" THEN keys2 \ keys1
    ELSE IF op = "symdiff" THEN (keys1 \ keys2) \cup (keys2 \ keys1)
    ELSE {}

\* result_keys with the rdiff branch computed as the diff branch.
result_keys_rdiff_as_diff(op, keys1, keys2) ==
    IF op = "union" THEN keys1 \cup keys2
    ELSE IF op = "intersect" THEN keys1 \cap keys2
    ELSE IF op = "diff" THEN keys1 \ keys2
    ELSE IF op = "rdiff" THEN keys1 \ keys2
    ELSE IF op = "symdiff" THEN (keys1 \ keys2) \cup (keys2 \ keys1)
    ELSE {}

\* result_keys with the symmetric difference computed as the rdiff branch.
result_keys_symdiff_as_rdiff(op, keys1, keys2) ==
    IF op = "union" THEN keys1 \cup keys2
    ELSE IF op = "intersect" THEN keys1 \cap keys2
    ELSE IF op = "diff" THEN keys1 \ keys2
    ELSE IF op = "rdiff" THEN keys2 \ keys1
    ELSE IF op = "symdiff" THEN keys2 \ keys1
    ELSE {}

\* result_keys with the symmetric difference computed as a union.
result_keys_symdiff_as_union(op, keys1, keys2) ==
    IF op = "union" THEN keys1 \cup keys2
    ELSE IF op = "intersect" THEN keys1 \cap keys2
    ELSE IF op = "diff" THEN keys1 \ keys2
    ELSE IF op = "rdiff" THEN keys2 \ keys1
    ELSE IF op = "symdiff" THEN keys1 \cup keys2
    ELSE {}

\* The branch `compare_mode == 'keys'`: the set result_keys.
result_keys(op, keys1, keys2) ==
    IF op = "union" THEN keys1 \cup keys2
    ELSE IF op = "intersect" THEN keys1 \cap keys2
    ELSE IF op = "diff" THEN keys1 \ keys2
    ELSE IF op = "rdiff" THEN keys2 \ keys1
    ELSE IF op = "symdiff" THEN (keys1 \ keys2) \cup (keys2 \ keys1)
    ELSE {}

\* The set of (key, hashable value) tuples of a flattened document.
items_of(h, flt) ==
    { <<flt[i][1], make_hashable(Load(h, flt[i][2]))>> : i \in 1..Len(flt) }

\* result_items with the diff branch keeping every item of the first document.
result_items_diff_keeps_all(op, items1, items2) ==
    IF op = "union" THEN items1 \cup items2
    ELSE IF op = "intersect" THEN items1 \cap items2
    ELSE IF op = "diff" THEN items1
    ELSE IF op = "rdiff" THEN items2 \ items1
    ELSE IF op = "symdiff" THEN (items1 \ items2) \cup (items2 \ items1)
    ELSE {}

\* result_items with the intersection computed as a union.
result_items_intersect_as_union(op, items1, items2) ==
    IF op = "union" THEN items1 \cup items2
    ELSE IF op = "intersect" THEN items1 \cup items2
    ELSE IF op = "diff" THEN items1 \ items2
    ELSE IF op = "rdiff" THEN items2 \ items1
    ELSE IF op = "symdiff" THEN (items1 \ items2) \cup (items2 \ items1)
    ELSE {}

\* result_items with an operation outside the five handled as a union.
result_items_other_as_union(op, items1, items2) ==
    IF op = "intersect" THEN items1 \cap items2
    ELSE IF op = "diff" THEN items1 \ items2
    ELSE IF op = "rdiff" THEN items2 \ items1
    ELSE IF op = "symdiff" THEN (items1 \ items2) \cup (items2 \ items1)
    ELSE items1 \cup items2

\* The else branch (every compare_mode other than 'keys'): the set
\* result_items; an operation outside the five builds no set and an empty
\* result.
result_items(op, items1, items2) ==
    IF op = "union" THEN items1 \cup items2
    ELSE IF op = "intersect" THEN items1 \cap items2
    ELSE IF op = "diff" THEN items1 \ items2
    ELSE IF op = "rdiff" THEN items2 \ items1
    ELSE IF op = "symdiff" THEN (items1 \ items2) \cup (items2 \ items1)
    ELSE {}

\* The keys of the dict `result` before unflattening.
selected_keys(h, f1, f2, op, mode, dpth) ==
    IF mode = "keys"
    THEN result_keys(op, DictKeys(flat1(h, f1, dpth)), DictKeys(flat2(h, f2, dpth)))
    ELSE { it[1] : it \in result_items(op, items_of(h, flat1(h, f1, dpth)),
                                           items_of(h, flat2(h, f2, dpth))) }

\* prefer_file1 with the two maps exchanged: the right value wins.
prefer_file2(fl1, fl2, key) ==
    IF DictHas(fl2, key) THEN DictGet(fl2, key) ELSE DictGet(fl1, key)

\* `flat1[key] if key in flat1 else flat2[key]`
prefer_file1(fl1, fl2, key) ==
    IF DictHas(fl1, key) THEN DictGet(fl1, key) ELSE DictGet(fl2, key)

\* The value stored under a selected key.
selected_value(fl1, fl2, op, mode, key) ==
    IF mode = "keys" THEN prefer_file1(fl1, fl2, key)
    ELSE IF op = "union" THEN prefer_file1(fl1, fl2, key)
    ELSE IF op = "intersect" THEN DictGet(fl1, key)
    ELSE IF op = "diff" THEN DictGet(fl1, key)
    ELSE IF op = "rdiff" THEN DictGet(fl2, key)
    ELSE prefer_file1(fl1, fl2, key)

\* The orders in which a set can be iterated.
RECURSIVE Orders(_)
Orders(S) ==
    IF S = {} THEN {<<>>}
    ELSE UNION { { <<x>> \o r : r \in Orders(S \ {x}) } : x \in S }

\* perform_set_operation(file1_data, file2_data, operation, compare_mode,
\* depth), `order` being the order in which the result set is iterated while
\* `result` is filled.  Returns the heap, the result, whether it raised, and
\* flat_result, the entries of `result` as built before `if depth > 1`.
perform_set_operation(h, f1, f2, op, mode, dpth, order) ==
    LET fl1 == flat1(h, f1, dpth)
        fl2 == flat2(h, f2, dpth)
        res == [i \in 1..Len(order) |->
                  <<order[i], selected_value(fl1, fl2, op, mode, order[i])>>]
        u   == unflatten_dict(h, res)
    IN  IF dpth > 1
        THEN [heap |-> u.heap, result |-> u.result, raised |-> u.raised,
              flat_result |-> res]
        ELSE [heap |-> Append(h, res), result |-> <<"ref", Len(h) + 1>>,
              raised |-> FALSE, flat_result |-> res]

\* Every outcome of one call, over the iteration orders of the result set.
Outcomes(h, f1, f2, op, mode, dpth) ==
    { perform_set_operation(h, f1, f2, op, mode, dpth, order) :
        order \in Orders(selected_keys(h, f1, f2, op, mode, dpth)) }

----------------------------------------------------------------------------
(* The documents the runs draw from. *)

\* A value that flatten_dict emits as it is: a scalar, a list, an empty dict.
Leaves ==
    { <<"int", n>> : n \in 1..MaxInt } \cup { <<"list", <<>>>>, <<"dict", <<>>>> }

\* The dict entries over the keys K with at most n entries in all, nested
\* ones counted, in every insertion order.
RECURSIVE EntrySeqs(_, _, _)
ValuesUpTo(K, L, m) ==
    L \cup { <<"dict", es>> : es \in EntrySeqs(K, L, m) \ {<<>>} }
EntrySeqs(K, L, n) ==
    IF n = 0 THEN {<<>>}
    ELSE {<<>>} \cup UNION {
           { << <<k, v>> >> \o rest :
               v \in ValuesUpTo(K, L, m),
               rest \in { r \in EntrySeqs(K, L, n - 1 - m) : ~DictHas(r, k) } } :
           k \in K, m \in 0..(n - 1) }

Documents(K, L, n) == { <<"dict", es>> : es \in EntrySeqs(K, L, n) }

\* Keys of the flatten runs: the empty string, plain keys, a dotted key.
FlattenKeys == { <<>>, <<"a">>, <<"b">>, <<"a", ".", "b">> }

FlattenDocs(n) == Documents(FlattenKeys, Leaves, n)

\* No key of the document, at any level, contains the separator.
RECURSIVE SepFree(_)
SepFree(v) ==
    v[1] = "dict" =>
        \A i \in 1..Len(v[2]) :
            /\ \A j \in 1..Len(v[2][i][1]) : v[2][i][1][j] # sep
            /\ SepFree(v[2][i][2])

\* Every key of the document, at any level, is a non-empty string without
\* the separator.
RECURSIVE PlainKeys(_)
PlainKeys(v) ==
    v[1] = "dict" =>
        \A i \in 1..Len(v[2]) :
            /\ Len(v[2][i][1]) > 0
            /\ \A j \in 1..Len(v[2][i][1]) : v[2][i][1][j] # sep
            /\ PlainKeys(v[2][i][2])

\* No value below the root is an empty mapping.
RECURSIVE NoEmptyMappings(_)
NoEmptyMappings(v) ==
    v[1] = "dict" =>
        \A i \in 1..Len(v[2]) :
            /\ v[2][i][2] # <<"dict", <<>>>>
            /\ NoEmptyMappings(v[2][i][2])

\* The number of root-to-leaf paths below a value (SumLeafPaths: of a
\* mapping's entries): a leaf is a value flatten_dict does not descend into
\* (a scalar, a list, an empty mapping).
RECURSIVE LeafPaths(_)
RECURSIVE SumLeafPaths(_)
SumLeafPaths(es) ==
    IF Len(es) = 0 THEN 0 ELSE LeafPaths(es[1][2]) + SumLeafPaths(Tail(es))
LeafPaths(v) ==
    IF v[1] = "dict" /\ Len(v[2]) > 0 THEN SumLeafPaths(v[2]) ELSE 1

----------------------------------------------------------------------------
(* Direct calls of flatten_dict and unflatten_dict on one document. *)

InitFlatten ==
    /\ doc1 \in FlattenDocs(MaxEntries)
    /\ doc2 = None
    /\ heap = Store(<<>>, doc1)[1]
    /\ file1_data = Store(<<>>, doc1)[2]
    /\ file2_data = None
    /\ operation = None
    /\ compare_mode = None
    /\ depth \in 0..MaxDepth
    /\ flat = None
    /\ result = None
    /\ hashed = None
    /\ raised = FALSE
    /\ exit_code = None
    /\ stdout = None
    /\ stderr = ""
    /\ pc = "start"
    /\ NoCompareRun

\* FlattenDict with depth 1 returning the caller's own dict, not a copy.
FlattenDict_depth_1_same_object ==
    /\ pc = "start"
    /\ IF depth = 1
       THEN /\ heap' = heap
            /\ flat' = file1_data
       ELSE /\ heap' = Append(heap, flatten_dict(heap, file1_data, depth, <<>>))
            /\ flat' = <<"ref", Len(heap) + 1>>
    /\ pc' = "flattened"
    /\ UNCHANGED <<doc1, doc2, file1_data, file2_data, operation,
                   compare_mode, depth, result, hashed, raised,
                   exit_code, stdout, stderr>>
    /\ UNCHANGED compare_vars

\* flat = flatten_dict(file1_data, depth): the returned dict is a new object.
FlattenDict ==
    /\ pc = "start"
    /\ heap' = Append(heap, flatten_dict(heap, file1_data, depth, <<>>))
    /\ flat' = <<"ref", Len(heap) + 1>>
    /\ pc' = "flattened"
    /\ UNCHANGED <<doc1, doc2, file1_data, file2_data, operation,
                   compare_mode, depth, result, hashed, raised,
                   exit_code, stdout, stderr>>
    /\ UNCHANGED compare_vars

\* result = unflatten_dict(flat)
UnflattenDict ==
    /\ pc = "flattened"
    /\ LET r == unflatten_dict(heap, heap[flat[2]])
       IN  /\ heap' = r.heap
           /\ result' = r.result
           /\ raised' = r.raised
    /\ pc' = "unflattened"
    /\ UNCHANGED <<doc1, doc2, file1_data, file2_data, operation,
                   compare_mode, depth, flat, hashed,
                   exit_code, stdout, stderr>>
    /\ UNCHANGED compare_vars

NextFlatten == FlattenDict \/ UnflattenDict

SpecFlatten == InitFlatten /\ [][NextFlatten]_vars

----------------------------------------------------------------------------
(* Claims about flatten_dict and unflatten_dict. *)

\* C1: for every document whose keys are free of the separator and which has
\* no empty-mapping leaves, unflatten_dict(flatten_dict(d, 0)) equals d.
C1_RoundTrip ==
    (pc = "unflattened" /\ depth = 0 /\ SepFree(doc1) /\ NoEmptyMappings(doc1))
        => (~raised /\ PyEq(Load(heap, result), doc1))

\* C10: for every document with separator-free keys, flatten_dict(d, 0) has
\* one entry per root-to-leaf path of d (no two paths share a flat key).
C10_FlatKeysUnique ==
    (pc = "flattened" /\ depth = 0 /\ SepFree(doc1))
        => Len(heap[flat[2]]) = SumLeafPaths(doc1[2])

\* The position of a key among the entries of a dict.
IndexOf(d, k) == CHOOSE i \in 1..Len(d) : d[i][1] = k

KeyA == <<"a">>
KeyAB == <<"a", ".", "b">>

\* The flat map given to unflatten_dict holds both "a", with a leaf, and
\* "a.b" (flatten_dict(d, 1) of a document with both root keys).
ConflictingFlatMap ==
    /\ depth = 1
    /\ DictHas(doc1[2], KeyA)
    /\ DictHas(doc1[2], KeyAB)
    /\ DictGet(doc1[2], KeyA) \in Leaves

\* C11: unflatten_dict on a flat map holding both "a", a leaf, and "a.b"
\* completes without raising, and the entry processed later decides the
\* value at node a: the leaf when "a" comes later, a mapping holding b when
\* "a.b" comes later.
C11_ConflictLastWriteWins ==
    (pc = "unflattened" /\ ConflictingFlatMap)
        => /\ ~raised
           /\ LET node == DictGet(Load(heap, result)[2], KeyA)
              IN  IF IndexOf(doc1[2], KeyA) > IndexOf(doc1[2], KeyAB)
                  THEN PyEq(node, DictGet(doc1[2], KeyA))
                  ELSE PyEq(node, <<"dict", << << <<"b">>,
                                       DictGet(doc1[2], KeyAB) >> >> >>)

\* del obj[k] on the dict object id.
DelItem(h, id, k) == [h EXCEPT ![id] = SelectSeq(@, LAMBDA e : e[1] # k)]

\* Some root value of the document is a non-empty mapping.
HasNestedMapping(v) ==
    \E i \in 1..Len(v[2]) : v[2][i][2][1] = "dict" /\ Len(v[2][i][2][2]) > 0

\* C13: flatten_dict(d, 1) returns a mapping equal to d, for every mapping
\* d, and the returned mapping is another object than d: setting or deleting
\* a root key of the result leaves d as it was.
C13_DepthOneIsShallowCopy ==
    (pc = "flattened" /\ depth = 1)
        => /\ PyEq(Load(heap, flat), doc1)
           /\ flat # file1_data
           /\ \A k \in FlattenKeys :
                 /\ PyEq(Load(SetItem(heap, flat[2], k, <<"int", 1>>), file1_data), doc1)
                 /\ PyEq(Load(DelItem(heap, flat[2], k), file1_data), doc1)

C13_Witness ==
    /\ pc = "flattened"
    /\ depth = 1
    /\ HasNestedMapping(doc1)
    /\ flat # file1_data
    /\ PyEq(Load(heap, flat), doc1)

\* A value of a flat map that is a non-empty mapping.
NonEmptyMapping(h, v) == IsDict(v) /\ Len(h[v[2]]) > 0

\* C14: for a document with separator-free keys and depth n >= 2, every flat
\* key has at most n segments and a non-empty mapping appears only under a
\* flat key of exactly n segments; for depth 0 no value of the flat map is a
\* non-empty mapping.
C14_DepthLimit ==
    (pc = "flattened" /\ SepFree(doc1))
        => LET fl == heap[flat[2]]
           IN  /\ depth >= 2 =>
                     \A i \in 1..Len(fl) :
                         /\ Len(split(fl[i][1])) <= depth
                         /\ NonEmptyMapping(heap, fl[i][2])
                                => Len(split(fl[i][1])) = depth
               /\ depth = 0 =>
                     \A i \in 1..Len(fl) : ~NonEmptyMapping(heap, fl[i][2])

C14_Witness ==
    /\ pc = "flattened"
    /\ SepFree(doc1)
    /\ depth = 2
    /\ \E i \in 1..Len(heap[flat[2]]) :
           /\ NonEmptyMapping(heap, heap[flat[2]][i][2])
           /\ Len(split(heap[flat[2]][i][1])) = 2

----------------------------------------------------------------------------
(* Direct calls of make_hashable on two values. *)

HashKeys == { <<"a">>, <<"b">> }

HashScalars == { <<"int", 1>>, <<"str", <<"a">>>> }

\* The plain values with at most n list elements and dict entries in all.
RECURSIVE HashValues(_)
RECURSIVE HashLists(_)
RECURSIVE HashDicts(_)
HashLists(n) ==
    IF n = 0 THEN {<<>>}
    ELSE {<<>>} \cup UNION {
           { <<v>> \o rest : v \in HashValues(m), rest \in HashLists(n - 1 - m) } :
           m \in 0..(n - 1) }
HashDicts(n) ==
    IF n = 0 THEN {<<>>}
    ELSE {<<>>} \cup UNION {
           { << <<k, v>> >> \o rest :
               v \in HashValues(m),
               rest \in { r \in HashDicts(n - 1 - m) : ~DictHas(r, k) } } :
           k \in HashKeys, m \in 0..(n - 1) }
HashValues(n) ==
    HashScalars \cup { <<"list", l>> : l \in HashLists(n) }
                \cup { <<"dict", d>> : d \in HashDicts(n) }

InitHash ==
    /\ doc1 \in HashValues(MaxSize)
    /\ doc2 \in HashValues(MaxSize)
    /\ heap = <<>>
    /\ file1_data = None
    /\ file2_data = None
    /\ operation = None
    /\ compare_mode = None
    /\ depth = 0
    /\ flat = None
    /\ result = None
    /\ hashed = <<None, None>>
    /\ raised = FALSE
    /\ exit_code = None
    /\ stdout = None
    /\ stderr = ""
    /\ pc = "start"
    /\ NoCompareRun

\* hashed[i] = make_hashable(value i)
MakeHashable(i) ==
    /\ hashed[i] = None
    /\ hashed' = [hashed EXCEPT ![i] = make_hashable(IF i = 1 THEN doc1 ELSE doc2)]
    /\ pc' = IF hashed'[1] # None /\ hashed'[2] # None THEN "hashed" ELSE pc
    /\ UNCHANGED <<heap, doc1, doc2, file1_data, file2_data, operation,
                   compare_mode, depth, flat, result, raised,
                   exit_code, stdout, stderr>>
    /\ UNCHANGED compare_vars

NextHash == \E i \in {1, 2} : MakeHashable(i)

SpecHash == InitHash /\ [][NextHash]_vars

\* C9: two values have equal canonical forms if and only if they are equal
\* as documents (mappings regardless of key order, sequences in order, a
\* mapping never equal to a sequence).
C9_CanonicalIsEquality ==
    pc = "hashed" => ((hashed[1] = hashed[2]) <=> PyEq(doc1, doc2))

----------------------------------------------------------------------------
(* Calls of perform_set_operation on two documents. *)

Operations == {"union", "intersect", "diff", "rdiff", "symdiff"}

CompareModes == {"keys", "kv"}

\* One string outside each enumeration.
OtherOperation == "merge"
OtherCompareMode == "values"

PerformKeys == { <<>>, <<"a">>, <<"b">>, <<"a", ".", "b">> }

PerformLeaves == { <<"int", 1>>, <<"list", <<>>>>, <<"dict", <<>>>> }

\* The number of entries of a document, nested ones counted.
RECURSIVE Entries(_)
RECURSIVE SumEntries(_)
SumEntries(es) ==
    IF Len(es) = 0 THEN 0 ELSE 1 + Entries(es[1][2]) + SumEntries(Tail(es))
Entries(v) == IF v[1] = "dict" THEN SumEntries(v[2]) ELSE 0

\* The keys of every mapping of the document were inserted in sorted order
\* (as yaml.dump writes them, sort_keys being its default).
RECURSIVE KeysSorted(_)
KeysSorted(v) ==
    v[1] = "dict" =>
        /\ \A i \in 1..(Len(v[2]) - 1) : StrLess(v[2][i][1], v[2][i + 1][1])
        /\ \A i \in 1..Len(v[2]) : KeysSorted(v[2][i][2])

PerformDocs(n) ==
    { d \in Documents(PerformKeys, PerformLeaves, n) : KeysSorted(d) }

\* The pairs of documents: small pairs, and a document with a copy of itself.
PerformPairs(n) ==
    LET docs == PerformDocs(MaxDocEntries)
    IN  { p \in docs \X docs : Entries(p[1]) + Entries(p[2]) <= n }
        \cup { <<d, d>> : d \in docs }

Init ==
    /\ \E p \in PerformPairs(MaxPairEntries) : doc1 = p[1] /\ doc2 = p[2]
    /\ LET s1 == Store(<<>>, doc1)
           s2 == Store(s1[1], doc2)
       IN  /\ heap = s2[1]
           /\ file1_data = s1[2]
           /\ file2_data = s2[2]
    /\ operation \in Operations \cup {OtherOperation}
    /\ compare_mode \in CompareModes \cup {OtherCompareMode}
    /\ depth \in 0..MaxOpDepth
    /\ flat = None
    /\ result = None
    /\ hashed = None
    /\ raised = FALSE
    /\ exit_code = None
    /\ stdout = None
    /\ stderr = ""
    /\ pc = "start"
    /\ NoCompareRun

\* result = perform_set_operation(file1_data, file2_data, operation,
\*                                compare_mode, depth)
PerformSetOperation ==
    /\ pc = "start"
    /\ \E o \in Outcomes(heap, file1_data, file2_data, operation, compare_mode, depth) :
          /\ heap' = o.heap
          /\ result' = o.result
          /\ raised' = o.raised
          /\ flat' = <<"flat", o.flat_result>>
    /\ pc' = "returned"
    /\ UNCHANGED <<doc1, doc2, file1_data, file2_data, operation,
                   compare_mode, depth, hashed,
                   exit_code, stdout, stderr>>
    /\ UNCHANGED compare_vars

Next == PerformSetOperation

Spec == Init /\ [][Next]_vars

----------------------------------------------------------------------------
(* Claims about perform_set_operation. *)

\* The heap as it was when the call was made.
HeapAtCall == Store(Store(<<>>, doc1)[1], doc2)[1]

\* The value of the returned mapping.
Returned == Load(heap, result)

EmptyDict == <<"dict", <<>>>>

\* C2: perform_set_operation never modifies its two input documents: after
\* any call both are equal to what they were before it.  (Stated for
\* documents whose keys are non-empty and free of the separator.)
C2_InputsUnchanged ==
    (pc = "returned" /\ PlainKeys(doc1) /\ PlainKeys(doc2)) =>
        /\ PyEq(Load(heap, file1_data), doc1)
        /\ PyEq(Load(heap, file2_data), doc2)

\* C3: for the same documents, operation, compare mode and depth the call
\* yields the same outcome (the same mapping or the same failure) in whatever
\* order the result set is iterated.  (Stated for documents whose keys are
\* non-empty and free of the separator.)
C3_Deterministic ==
    (pc = "returned" /\ PlainKeys(doc1) /\ PlainKeys(doc2)) =>
        \A o \in Outcomes(HeapAtCall, file1_data, file2_data, operation,
                          compare_mode, depth) :
            /\ o.raised = raised
            /\ ~raised => PyEq(Load(o.heap, o.result), Returned)

\* C5 as claimed: an operation string or a compare-mode string outside the
\* enumerated sets makes the call return an empty mapping without raising.
C5_UnsupportedGivesEmpty ==
    (pc = "returned" /\ (operation \notin Operations \/ compare_mode \notin CompareModes))
        => (~raised /\ PyEq(Returned, EmptyDict))

\* C5 as amended: an operation string outside the enumerated set makes the
\* call return an empty mapping without raising, in every compare mode; a
\* compare-mode string other than 'keys' is handled as 'kv'.
C5_UnsupportedOperationGivesEmpty ==
    /\ (pc = "returned" /\ operation \notin Operations)
           => (~raised /\ PyEq(Returned, EmptyDict))
    /\ (pc = "returned" /\ compare_mode \notin CompareModes)
           => \E o \in Outcomes(HeapAtCall, file1_data, file2_data, operation,
                                "kv", depth) :
                  /\ o.raised = raised
                  /\ ~raised => PyEq(Load(o.heap, o.result), Returned)

C5_Witness ==
    /\ pc = "returned"
    /\ operation \notin Operations
    /\ compare_mode = "kv"
    /\ Len(doc1[2]) > 0
    /\ Len(doc2[2]) > 0
    /\ ~raised
    /\ Returned = EmptyDict

C7_SelfDiffEmpty ==
    (pc = "returned" /\ operation = "diff" /\ doc1 = doc2)
        => (~raised /\ PyEq(Returned, EmptyDict))

C7_Witness ==
    /\ pc = "returned"
    /\ operation = "diff"
    /\ compare_mode = "kv"
    /\ depth = 2
    /\ doc1 = doc2
    /\ Entries(doc1) = 2
    /\ ~raised
    /\ Returned = EmptyDict

\* C8: intersection is commutative: the results for (A, B) and (B, A) have
\* the same key set in both compare modes and are the same mapping in 'kv'
\* mode.  (Stated for documents whose keys are non-empty and free of the
\* separator.)
C8_IntersectCommutative ==
    (pc = "returned" /\ operation = "intersect" /\ compare_mode \in CompareModes
        /\ PlainKeys(doc1) /\ PlainKeys(doc2))
        => \A o \in Outcomes(HeapAtCall, file2_data, file1_data, operation,
                             compare_mode, depth) :
               /\ ~raised /\ ~o.raised
               /\ DictKeys(Load(o.heap, o.result)[2]) = DictKeys(Returned[2])
               /\ compare_mode = "kv" => PyEq(Load(o.heap, o.result), Returned)

\* The two flattened documents of the call, and the flat result.
Flat1AtCall == flatten_dict(HeapAtCall, file1_data, depth, <<>>)
Flat2AtCall == flatten_dict(HeapAtCall, file2_data, depth, <<>>)
FlatResult == flat[2]

\* The value the left flattened map holds for the key, else the right one's.
LeftFirst(k) ==
    IF DictHas(Flat1AtCall, k) THEN DictGet(Flat1AtCall, k)
    ELSE DictGet(Flat2AtCall, k)

\* The flat result has exactly the keys K, one entry each.
FlatResultKeysAre(K) ==
    /\ DictKeys(FlatResult) = K
    /\ Len(FlatResult) = Cardinality(K)

\* C15: in 'keys' mode the flat result's key set is the set operation applied
\* to the two flattened key sets, and every result key maps to the left
\* flattened map's value when the left map has the key, otherwise to the
\* right map's value.
C15_KeysModeSelection ==
    (pc = "returned" /\ compare_mode = "keys" /\ operation \in Operations)
        => LET k1 == DictKeys(Flat1AtCall)
               k2 == DictKeys(Flat2AtCall)
           IN  /\ operation = "union" => FlatResultKeysAre(k1 \cup k2)
               /\ operation = "intersect" => FlatResultKeysAre(k1 \cap k2)
               /\ operation = "diff" => FlatResultKeysAre(k1 \ k2)
               /\ operation = "rdiff" => FlatResultKeysAre(k2 \ k1)
               /\ operation = "symdiff" =>
                      FlatResultKeysAre({ k \in k1 \cup k2 : ~(k \in k1 /\ k \in k2) })
               /\ \A i \in 1..Len(FlatResult) :
                      FlatResult[i][2] = LeftFirst(FlatResult[i][1])

C15_Witness ==
    /\ pc = "returned"
    /\ compare_mode = "keys"
    /\ operation = "symdiff"
    /\ depth = 2
    /\ PlainKeys(doc1)
    /\ PlainKeys(doc2)
    /\ Len(FlatResult) = 2
    /\ \E i \in 1..2 : ~DictHas(Flat1AtCall, FlatResult[i][1])
    /\ \E i \in 1..2 : DictHas(Flat1AtCall, FlatResult[i][1])

C17_UnionKeysCommutative ==
    (pc = "returned" /\ operation = "union" /\ compare_mode = "kv"
        /\ PlainKeys(doc1) /\ PlainKeys(doc2))
        => \A o \in Outcomes(HeapAtCall, file2_data, file1_data, operation,
                             compare_mode, depth) :
               /\ ~raised /\ ~o.raised
               /\ DictKeys(Load(o.heap, o.result)[2]) = DictKeys(Returned[2])

\* C18: in 'kv' mode at depth 1, diff keeps exactly the entries of A whose
\* key B lacks or for which B holds a different value, each with A's value.
\* (Stated for documents whose keys are non-empty and free of the separator.)
C18_KvDiff ==
    (pc = "returned" /\ operation = "diff" /\ compare_mode = "kv" /\ depth = 1
        /\ PlainKeys(doc1) /\ PlainKeys(doc2))
        => /\ ~raised
           /\ DictKeys(Returned[2]) \subseteq DictKeys(doc1[2])
           /\ \A k \in DictKeys(doc1[2]) :
                  /\ DictHas(Returned[2], k)
                         <=> \/ ~DictHas(doc2[2], k)
                             \/ ~PyEq(DictGet(doc1[2], k), DictGet(doc2[2], k))
                  /\ DictHas(Returned[2], k)
                         => PyEq(DictGet(Returned[2], k), DictGet(doc1[2], k))

\* The outcomes of the diff of the same two documents with the operands
\* exchanged, and of the rdiff itself.
SwappedDiff ==
    Outcomes(HeapAtCall, file2_data, file1_data, "diff", compare_mode, depth)
RdiffItself ==
    Outcomes(HeapAtCall, file1_data, file2_data, "rdiff", compare_mode, depth)

\* C19: rdiff is diff with the operands swapped: for all documents, every
\* compare mode and every depth, what perform(A, B, 'rdiff', mode, depth)
\* does (the mapping it returns or its failure, and what it leaves in the
\* documents) is what perform(B, A, 'diff', mode, depth) does, and every
\* entry of the flat result carries B's value for its key.
C19_RdiffIsSwappedDiff ==
    (pc = "returned" /\ operation = "rdiff")
        => /\ \E o \in SwappedDiff :
                  /\ o.raised = raised
                  /\ o.heap = heap
                  /\ o.result = result
                  /\ o.flat_result = FlatResult
           /\ RdiffItself = SwappedDiff
           /\ \A i \in 1..Len(FlatResult) :
                  /\ DictHas(Flat2AtCall, FlatResult[i][1])
                  /\ FlatResult[i][2] = DictGet(Flat2AtCall, FlatResult[i][1])

C19_Witness ==
    /\ pc = "returned"
    /\ operation = "rdiff"
    /\ compare_mode = "kv"
    /\ depth = 2
    /\ ~raised
    /\ PlainKeys(doc1)
    /\ PlainKeys(doc2)
    /\ \E i \in 1..Len(FlatResult) :
           /\ DictHas(Flat1AtCall, FlatResult[i][1])
           /\ DictGet(Flat1AtCall, FlatResult[i][1]) # FlatResult[i][2]
    /\ \E i \in 1..Len(FlatResult) : ~DictHas(Flat1AtCall, FlatResult[i][1])
    /\ \E o \in Outcomes(HeapAtCall, file1_data, file2_data, "diff",
                         compare_mode, depth) :
           ~PyEq(Load(o.heap, o.result), Returned)

\* C20: in 'kv' mode symdiff returns one entry for exactly the keys present
\* in only one document or present in both with different values; a key
\* present in both with equal values is excluded, and a key present in both
\* with different values carries the left document's value.  (Stated at
\* depth 1, for documents whose keys are non-empty and free of the
\* separator.)
C20_KvSymdiff ==
    (pc = "returned" /\ operation = "symdiff" /\ compare_mode = "kv" /\ depth = 1
        /\ PlainKeys(doc1) /\ PlainKeys(doc2))
        => LET k1 == DictKeys(doc1[2])
               k2 == DictKeys(doc2[2])
               differs(k) == ~PyEq(DictGet(doc1[2], k), DictGet(doc2[2], k))
           IN  /\ ~raised
               /\ DictKeys(Returned[2]) =
                      { k \in k1 \cup k2 : (k \in k1 /\ k \in k2) => differs(k) }
               /\ Len(Returned[2]) = Cardinality(DictKeys(Returned[2]))
               /\ \A k \in DictKeys(Returned[2]) \cap k1 :
                      PyEq(DictGet(Returned[2], k), DictGet(doc1[2], k))
               /\ \A k \in DictKeys(Returned[2]) \ k1 :
                      PyEq(DictGet(Returned[2], k), DictGet(doc2[2], k))

\* The entries of a flat result as a set of <<key, value>> pairs.
EntrySet(d) == { d[i] : i \in 1..Len(d) }

\* The outcomes of the symdiff of the two documents of the call.
SymdiffItself ==
    Outcomes(HeapAtCall, file1_data, file2_data, "symdiff", compare_mode, depth)

\* C21: in 'keys' mode the flat result of diff(A, B) is the flat result of
\* symdiff(A, B) restricted to the keys of A's flattened map: the same keys,
\* one entry each, with the same values.
C21_DiffIsSymdiffOnLeftKeys ==
    (pc = "returned" /\ operation = "diff" /\ compare_mode = "keys")
        => \A o \in SymdiffItself :
               /\ EntrySet(FlatResult) =
                      { e \in EntrySet(o.flat_result) : DictHas(Flat1AtCall, e[1]) }
               /\ Len(FlatResult) = Cardinality(EntrySet(FlatResult))

C21_Witness ==
    /\ pc = "returned"
    /\ operation = "diff"
    /\ compare_mode = "keys"
    /\ depth = 2
    /\ PlainKeys(doc1)
    /\ PlainKeys(doc2)
    /\ Len(FlatResult) >= 1
    /\ \E o \in SymdiffItself : Len(o.flat_result) > Len(FlatResult)

\* The document holds a value under the path of keys; the value it holds.
RECURSIVE HasPath(_, _)
HasPath(v, parts) ==
    IF Len(parts) = 0 THEN TRUE
    ELSE /\ v[1] = "dict"
         /\ DictHas(v[2], parts[1])
         /\ HasPath(DictGet(v[2], parts[1]), Tail(parts))

RECURSIVE GetPath(_, _)
GetPath(v, parts) ==
    IF Len(parts) = 0 THEN v ELSE GetPath(DictGet(v[2], parts[1]), Tail(parts))

\* C22: result nesting follows the depth.  For depth n > 1 the returned
\* mapping is the unflattened form of the selected flat entries: it holds a
\* nested path, with the selected value, iff the corresponding flat key was
\* selected.  For depth 1 every result value is a whole root value of one of
\* the two input documents.  (Stated for documents whose keys are non-empty
\* and free of the separator.)
C22_NestingFollowsDepth ==
    (pc = "returned" /\ operation \in Operations /\ compare_mode \in CompareModes
        /\ PlainKeys(doc1) /\ PlainKeys(doc2))
        => /\ depth > 1 =>
                  /\ ~raised
                  /\ \A i \in 1..Len(FlatResult) :
                         /\ HasPath(Returned, split(FlatResult[i][1]))
                         /\ PyEq(GetPath(Returned, split(FlatResult[i][1])),
                                 Load(HeapAtCall, FlatResult[i][2]))
                  /\ DictKeys(flatten_dict(heap, result, depth, <<>>))
                         = DictKeys(FlatResult)
           /\ depth = 1 =>
                  /\ ~raised
                  /\ \A k \in DictKeys(Returned[2]) :
                         \/ /\ DictHas(doc1[2], k)
                            /\ PyEq(DictGet(Returned[2], k), DictGet(doc1[2], k))
                         \/ /\ DictHas(doc2[2], k)
                            /\ PyEq(DictGet(Returned[2], k), DictGet(doc2[2], k))

\* C24: operating on a document with itself returns the document: for every
\* document A with separator-free keys, both compare modes and every depth
\* >= 1, the intersect and the union of A with A equal A.
C24_SelfIntersectAndUnion ==
    (pc = "returned" /\ doc1 = doc2 /\ SepFree(doc1)
        /\ operation \in {"intersect", "union"} /\ compare_mode \in CompareModes
        /\ depth >= 1)
        => (~raised /\ PyEq(Returned, doc1))

DottedPrefix(k, l) ==
    LET p == split(k)
        q == split(l)
    IN  Len(p) < Len(q) /\ SubSeq(q, 1, Len(p)) = p

\* C26: for any two input documents with separator-free keys, any operation,
\* mode and depth > 1, the flat result passed to unflatten_dict never holds
\* two keys of which one is a proper dotted prefix of the other, and
\* unflatten_dict never raises inside perform_set_operation.  (Stated for
\* documents whose keys are also non-empty.)
C26_NoConflictingFlatKeys ==
    (pc = "returned" /\ depth > 1 /\ PlainKeys(doc1) /\ PlainKeys(doc2))
        => /\ \A k, l \in DictKeys(FlatResult) : ~DottedPrefix(k, l)
           /\ ~raised

\* The outcomes of the diff of the two documents of the call.
DiffItself ==
    Outcomes(HeapAtCall, file1_data, file2_data, "diff", compare_mode, depth)

\* C27: in 'kv' mode at depth 1, intersect and diff partition the left
\* document: the key sets of the two results are disjoint, their union is
\* the key set of A, and every value in either result is A's value for that
\* key.
C27_IntersectDiffPartition ==
    (pc = "returned" /\ operation = "intersect" /\ compare_mode = "kv" /\ depth = 1)
        => \A o \in DiffItself :
               LET Diffed == Load(o.heap, o.result)
                   ki == DictKeys(Returned[2])
                   kd == DictKeys(Diffed[2])
               IN  /\ ~raised /\ ~o.raised
                   /\ ki \cap kd = {}
                   /\ ki \cup kd = DictKeys(doc1[2])
                   /\ Len(Returned[2]) + Len(Diffed[2]) = Len(doc1[2])
                   /\ \A k \in ki : PyEq(DictGet(Returned[2], k), DictGet(doc1[2], k))
                   /\ \A k \in kd : PyEq(DictGet(Diffed[2], k), DictGet(doc1[2], k))

C27_Witness ==
    /\ pc = "returned"
    /\ operation = "intersect"
    /\ compare_mode = "kv"
    /\ depth = 1
    /\ Len(Returned[2]) = 1
    /\ \E o \in DiffItself : Len(Load(o.heap, o.result)[2]) = 1
    /\ DictKeys(doc2[2]) \subseteq DictKeys(doc1[2])
    /\ PlainKeys(doc1)

----------------------------------------------------------------------------
(* Calls of perform_set_operation on the documents of the test fixtures. *)

database == <<"d", "a", "t", "a", "b", "a", "s", "e">>
host == <<"h", "o", "s", "t">>
port == <<"p", "o", "r", "t">>
app == <<"a", "p", "p">>
name == <<"n", "a", "m", "e">>
debug == <<"d", "e", "b", "u", "g">>
logging == <<"l", "o", "g", "g", "i", "n", "g">>
localhost == <<"str", <<"l", "o", "c", "a", "l", "h", "o", "s", "t">>>>
myapp == <<"str", <<"m", "y", "a", "p", "p">>>>
postgres == <<"str", <<"p", "o", "s", "t", "g", "r", "e", "s">>>>
verbose == <<"str", <<"v", "e", "r", "b", "o", "s", "e">>>>

\* {database: {host: localhost, port: 5432}, app: {name: myapp}}
nested1_data ==
    <<"dict", << <<database, <<"dict", << <<host, localhost>>,
                                          <<port, <<"int", 5432>>>> >>>>>>,
                 <<app, <<"dict", << <<name, myapp>> >>>>>> >>>>

\* {database: {host: localhost, port: 3306}, app: {name: myapp}}
nested2_data ==
    <<"dict", << <<database, <<"dict", << <<host, localhost>>,
                                          <<port, <<"int", 3306>>>> >>>>>>,
                 <<app, <<"dict", << <<name, myapp>> >>>>>> >>>>

\* {database: postgres, port: 5432, debug: true}
simple1_data ==
    <<"dict", << <<database, postgres>>, <<port, <<"int", 5432>>>>,
                 <<debug, <<"bool", TRUE>>>> >>>>

\* {database: postgres, port: 3306, logging: verbose}
simple2_data ==
    <<"dict", << <<database, postgres>>, <<port, <<"int", 3306>>>>,
                 <<logging, verbose>> >>>>

ExamplePairs == { <<nested1_data, nested2_data>>, <<simple1_data, simple2_data>> }

InitExamples ==
    /\ \E p \in ExamplePairs : doc1 = p[1] /\ doc2 = p[2]
    /\ LET s1 == Store(<<>>, doc1)
           s2 == Store(s1[1], doc2)
       IN  /\ heap = s2[1]
           /\ file1_data = s1[2]
           /\ file2_data = s2[2]
    /\ operation \in Operations
    /\ compare_mode \in CompareModes
    /\ depth \in 0..MaxOpDepth
    /\ flat = None
    /\ result = None
    /\ hashed = None
    /\ raised = FALSE
    /\ exit_code = None
    /\ stdout = None
    /\ stderr = ""
    /\ pc = "start"
    /\ NoCompareRun

SpecExamples == InitExamples /\ [][Next]_vars

\* C12 as claimed: in 'keys' mode at depth 2, intersecting nested1 with
\* nested2 yields exactly {database: {host: localhost}, app: {name: myapp}}.
IntersectOfNested ==
    <<"dict", << <<database, <<"dict", << <<host, localhost>> >>>>>>,
                 <<app, <<"dict", << <<name, myapp>> >>>>>> >>>>

C12_KeysIntersectOfNested ==
    (pc = "returned" /\ doc1 = nested1_data /\ doc2 = nested2_data
        /\ operation = "intersect" /\ compare_mode = "keys" /\ depth = 2)
        => (~raised /\ PyEq(Returned, IntersectOfNested))

\* C12 as amended: in 'kv' mode at depth 2, intersecting nested1 with
\* nested2 yields exactly {database: {host: localhost}, app: {name: myapp}};
\* in 'keys' mode it yields the whole of nested1.
C12_KvIntersectOfNested ==
    (pc = "returned" /\ doc1 = nested1_data /\ doc2 = nested2_data
        /\ operation = "intersect" /\ depth = 2)
        => /\ ~raised
           /\ compare_mode = "kv" => PyEq(Returned, IntersectOfNested)
           /\ compare_mode = "keys" => PyEq(Returned, nested1_data)

C12_Witness ==
    /\ pc = "returned"
    /\ doc1 = nested1_data
    /\ doc2 = nested2_data
    /\ operation = "intersect"
    /\ compare_mode = "kv"
    /\ depth = 2
    /\ Returned = IntersectOfNested

----------------------------------------------------------------------------
(* The set-operation commands: load both files, perform, emit. *)

\* What open and yaml.safe_load make of a file: no such file, a parse
\* error, or the parsed root value (None for an empty file).
Missing == <<"missing">>
Invalid == <<"invalid">>

\* The truth value Python gives a parsed value (the left operand of `or`).
Truthy(v) ==
    IF v[1] = "none" THEN FALSE
    ELSE IF v[1] = "bool" THEN v[2]
    ELSE IF v[1] = "int" THEN v[2] # 0
    ELSE Len(v[2]) > 0

\* load_yaml_file(file_path): the exit status and message when it exits
\* (exit_code None when it returns) and the data it returns.
load_yaml_file(file) ==
    IF file = Missing
    THEN [exit_code |-> <<"int", 1>>, stderr |-> "Error: File not found", data |-> None]
    ELSE IF file = Invalid
    THEN [exit_code |-> <<"int", 1>>, stderr |-> "Error: Invalid YAML", data |-> None]
    ELSE LET data == IF Truthy(file) THEN file ELSE <<"dict", <<>>>>
         IN  IF data[1] # "dict"
             THEN [exit_code |-> <<"int", 1>>,
                   stderr |-> "Error: Root must be a YAML mapping", data |-> None]
             ELSE [exit_code |-> None, stderr |-> "", data |-> data]

CliScalars ==
    { None, <<"bool", FALSE>>, <<"bool", TRUE>>, <<"int", 0>>, <<"int", 1>>,
      <<"str", <<>>>>, <<"str", <<"a">>>> }

CliLists == { <<"list", <<>>>>, <<"list", << <<"int", 1>> >>>> }

CliDocs(n) == { d \in PerformDocs(MaxDocEntries) : Entries(d) <= n }

FileContents(n) == {Missing, Invalid} \cup CliScalars \cup CliLists \cup CliDocs(n)

InitCli ==
    /\ doc1 \in FileContents(MaxCliEntries)
    /\ doc2 \in FileContents(MaxCliEntries)
    /\ heap = <<>>
    /\ file1_data = None
    /\ file2_data = None
    /\ operation \in Operations
    /\ compare_mode \in CompareModes
    /\ depth \in 0..MaxOpDepth
    /\ flat = None
    /\ result = None
    /\ hashed = None
    /\ raised = FALSE
    /\ exit_code = None
    /\ stdout = None
    /\ stderr = ""
    /\ pc = "invoked"
    /\ NoCompareRun

\* click.Path(exists=True) on both arguments: a path that does not exist is
\* a usage error, exit status 2, and the command body does not run.
CheckPaths ==
    /\ pc = "invoked"
    /\ IF doc1 = Missing \/ doc2 = Missing
       THEN /\ exit_code' = <<"int", 2>>
            /\ stderr' = "Error: Invalid value: Path does not exist"
            /\ pc' = "exited"
       ELSE /\ pc' = "command"
            /\ UNCHANGED <<exit_code, stderr>>
    /\ UNCHANGED <<heap, doc1, doc2, file1_data, file2_data, operation,
                   compare_mode, depth, flat, result, hashed, raised, stdout>>
    /\ UNCHANGED compare_vars

\* file1_data = load_yaml_file(file1)
LoadFile1 ==
    /\ pc = "command"
    /\ LET r == load_yaml_file(doc1)
       IN  IF r.exit_code # None
           THEN /\ exit_code' = r.exit_code
                /\ stderr' = r.stderr
                /\ pc' = "exited"
                /\ UNCHANGED <<heap, file1_data>>
           ELSE /\ heap' = Store(heap, r.data)[1]
                /\ file1_data' = Store(heap, r.data)[2]
                /\ pc' = "loaded1"
                /\ UNCHANGED <<exit_code, stderr>>
    /\ UNCHANGED <<doc1, doc2, file2_data, operation, compare_mode, depth,
                   flat, result, hashed, raised, stdout>>
    /\ UNCHANGED compare_vars

\* file2_data = load_yaml_file(file2)
LoadFile2 ==
    /\ pc = "loaded1"
    /\ LET r == load_yaml_file(doc2)
       IN  IF r.exit_code # None
           THEN /\ exit_code' = r.exit_code
                /\ stderr' = r.stderr
                /\ pc' = "exited"
                /\ UNCHANGED <<heap, file2_data>>
           ELSE /\ heap' = Store(heap, r.data)[1]
                /\ file2_data' = Store(heap, r.data)[2]
                /\ pc' = "loaded2"
                /\ UNCHANGED <<exit_code, stderr>>
    /\ UNCHANGED <<doc1, doc2, file1_data, operation, compare_mode, depth,
                   flat, result, hashed, raised, stdout>>
    /\ UNCHANGED compare_vars

\* result = perform_set_operation(...); an exception it raises is caught by
\* `except Exception`, reported, and ends the command with exit status 1.
Perform ==
    /\ pc = "loaded2"
    /\ \E o \in Outcomes(heap, file1_data, file2_data, operation, compare_mode, depth) :
          /\ heap' = o.heap
          /\ raised' = o.raised
          /\ IF o.raised
             THEN /\ exit_code' = <<"int", 1>>
                  /\ stderr' = "Error: " \o "exception"
                  /\ pc' = "exited"
                  /\ UNCHANGED result
             ELSE /\ result' = o.result
                  /\ pc' = "performed"
                  /\ UNCHANGED <<exit_code, stderr>>
    /\ UNCHANGED <<doc1, doc2, file1_data, file2_data, operation,
                   compare_mode, depth, flat, hashed, stdout>>
    /\ UNCHANGED compare_vars

\* yaml.dump(result, sys.stdout, ...); the command returns, exit status 0.
\* stdout holds the document the written text denotes.
Dump ==
    /\ pc = "performed"
    /\ stdout' = Load(heap, result)
    /\ exit_code' = <<"int", 0>>
    /\ pc' = "exited"
    /\ UNCHANGED <<heap, doc1, doc2, file1_data, file2_data, operation,
                   compare_mode, depth, flat, result, hashed, raised, stderr>>
    /\ UNCHANGED compare_vars

NextCli == CheckPaths \/ LoadFile1 \/ LoadFile2 \/ Perform \/ Dump

SpecCli == InitCli /\ [][NextCli]_vars

----------------------------------------------------------------------------
(* Claims about load_yaml_file. *)

\* A parsed root that is a list or a scalar other than null.
NonMappingRoot(file) == file[1] \in {"bool", "int", "str", "list"}

\* load_yaml_file has been called on the first file, on the second file.
Called1 == pc \notin {"invoked", "command"} /\ exit_code # <<"int", 2>>
Called2 == Called1 /\ file1_data # None /\ pc # "loaded1"

\* C4: a parsed document whose root is not a mapping makes load_yaml_file end
\* the command with exit status 1 and the message 'Root must be a YAML
\* mapping' before perform_set_operation is invoked; load_yaml_file never
\* returns a mapping for such a root.  (Stated for list roots and for scalar
\* roots other than null, which the parser also gives for an empty file.)
C4_NonMappingRootExits ==
    /\ (Called1 /\ NonMappingRoot(doc1))
           => /\ pc = "exited"
              /\ exit_code = <<"int", 1>>
              /\ stderr = "Error: Root must be a YAML mapping"
              /\ file1_data = None
              /\ result = None
    /\ (Called2 /\ NonMappingRoot(doc2))
           => /\ pc = "exited"
              /\ exit_code = <<"int", 1>>
              /\ stderr = "Error: Root must be a YAML mapping"
              /\ file2_data = None
              /\ result = None

----------------------------------------------------------------------------
(* Claims about the set-operation commands. *)

\* A file that is missing, malformed, or whose root is not a mapping.
BadFile(file) == file \in {Missing, Invalid} \/ NonMappingRoot(file)

\* C23: a result is written to standard output only after both loads and the
\* set operation completed successfully, in that order, and whenever a file
\* is missing, malformed or has a non-mapping root, or the operation raises,
\* the command ends with a non-zero exit status having written no result.
C23_NoResultOnFailure ==
    /\ stdout # None =>
           /\ file1_data # None
           /\ file2_data # None
           /\ result # None
           /\ ~raised
           /\ pc = "exited"
    /\ file2_data # None => file1_data # None
    /\ result # None => file2_data # None
    /\ (pc = "exited" /\ (BadFile(doc1) \/ BadFile(doc2) \/ raised)) =>
           /\ exit_code \in {<<"int", 1>>, <<"int", 2>>}
           /\ stdout = None

----------------------------------------------------------------------------
(* compare_runs.py: _extract_template_args *)

\* No call of cli.py is under way.
NoConfigRun ==
    /\ heap = <<>>
    /\ doc1 = None
    /\ doc2 = None
    /\ file1_data = None
    /\ file2_data = None
    /\ operation = ""
    /\ compare_mode = ""
    /\ depth = 0
    /\ flat = None
    /\ hashed = None
    /\ exit_code = None
    /\ stdout = None
    /\ stderr = ""

\* A text is a sequence of symbols: the four characters below, and
\* Assignment, which stands for a stretch of text matching
\* window\.templateArgs\s*=\s* (it is not a character of any JSON text).
Assignment == "window.templateArgs = "
TextChars == { "{", "}", "\"", ":" }

\* json.loads on a text of these characters.  A string runs from a quote to
\* the next quote; an object is {} or { string : value }; a value is a
\* string or an object.  Each parser gives whether it succeeded, the
\* position after what it read, and the value.
Failed == [ok |-> FALSE, next |-> 0, value |-> None]

ScanString(t, i) ==
    IF i > Len(t) \/ t[i] # "\"" THEN Failed
    ELSE LET ends == { j \in (i + 1)..Len(t) : t[j] = "\"" }
         IN  IF ends = {} THEN Failed
             ELSE LET j == CHOOSE e \in ends : \A f \in ends : e <= f
                  IN  [ok |-> TRUE, next |-> j + 1,
                       value |-> <<"str", SubSeq(t, i + 1, j - 1)>>]

RECURSIVE ParseValue(_, _)
ParseValue(t, i) ==
    IF i > Len(t) THEN Failed
    ELSE IF t[i] = "\"" THEN ScanString(t, i)
    ELSE IF t[i] # "{" THEN Failed
    ELSE IF i + 1 <= Len(t) /\ t[i + 1] = "}"
    THEN [ok |-> TRUE, next |-> i + 2, value |-> <<"dict", <<>>>>]
    ELSE LET k == ScanString(t, i + 1)
         IN  IF ~k.ok \/ k.next > Len(t) \/ t[k.next] # ":" THEN Failed
             ELSE LET v == ParseValue(t, k.next + 1)
                  IN  IF ~v.ok \/ v.next > Len(t) \/ t[v.next] # "}" THEN Failed
                      ELSE [ok |-> TRUE, next |-> v.next + 1,
                            value |-> <<"dict", << <<k.value[2], v.value>> >>>>]

\* json.loads(t): the whole text must be one value.
json_loads(t) ==
    LET r == ParseValue(t, 1)
    IN  IF r.ok /\ r.next = Len(t) + 1 THEN r ELSE Failed

\* re.search(r"window\.templateArgs\s*=\s*\{", html_text): the positions at
\* which the pattern matches; re.search takes the first.
Matches(t) ==
    { i \in 1..(Len(t) - 1) : t[i] = Assignment /\ t[i + 1] = "{" }

\* The while loop from position i with the brace count dpth: the value
\* returned.
RECURSIVE MatchBraces(_, _, _, _)
MatchBraces(t, brace_start, i, dpth) ==
    IF i > Len(t) THEN None
    ELSE IF t[i] = "{" THEN MatchBraces(t, brace_start, i + 1, dpth + 1)
    ELSE IF t[i] = "}"
    THEN IF dpth - 1 = 0
         THEN LET r == json_loads(SubSeq(t, brace_start, i))
              IN  IF r.ok THEN r.value ELSE None
         ELSE MatchBraces(t, brace_start, i + 1, dpth - 1)
    ELSE MatchBraces(t, brace_start, i + 1, dpth)

\* _extract_template_args(html_text)
extract_template_args(t) ==
    IF Matches(t) = {} THEN None
    ELSE LET m == CHOOSE i \in Matches(t) : \A j \in Matches(t) : i <= j
             brace_start == m + 1
         IN  MatchBraces(t, brace_start, brace_start, 0)

\* The texts of the runs: nothing, the assignment, or a brace and the
\* assignment, followed by up to MaxTextLen characters.
RECURSIVE CharSeqs(_)
CharSeqs(n) ==
    IF n = 0 THEN { <<>> }
    ELSE LET shorter == CharSeqs(n - 1)
         IN  shorter \cup { Append(q, c) : q \in shorter, c \in TextChars }

Texts(n) ==
    { h \o b : h \in { <<>>, <<Assignment>>, <<"{", Assignment>> },
               b \in CharSeqs(n) }

InitExtract ==
    /\ NoConfigRun
    /\ html_text \in Texts(MaxTextLen)
    /\ base_rows = None
    /\ curr_rows = None
    /\ base_html_rows = None
    /\ curr_html_rows = None
    /\ base = None
    /\ curr = None
    /\ result = None
    /\ raised = FALSE
    /\ pc = "start"

ExtractTemplateArgs ==
    /\ pc = "start"
    /\ result' = extract_template_args(html_text)
    /\ pc' = "extracted"
    /\ UNCHANGED <<raised, config_vars, compare_vars>>

NextExtract == ExtractTemplateArgs

SpecExtract == InitExtract /\ [][NextExtract]_vars

\* The position of the brace that follows the first assignment, and the
\* positions at which a valid JSON object starting there ends.
BraceStart == 1 + CHOOSE i \in Matches(html_text) : \A j \in Matches(html_text) : i <= j
ValidEnds ==
    { j \in BraceStart..Len(html_text) :
        json_loads(SubSeq(html_text, BraceStart, j)).ok }

\* No key of the object, at any level, holds a brace.
RECURSIVE KeysBraceFree(_)
KeysBraceFree(v) ==
    v[1] = "dict" =>
        \A i \in 1..Len(v[2]) :
            /\ \A c \in 1..Len(v[2][i][1]) : v[2][i][1][c] \notin {"{", "}"}
            /\ KeysBraceFree(v[2][i][2])

\* C28: _extract_template_args returns the parsed object for every text that
\* contains the assignment followed by a valid JSON object, objects whose
\* string values contain braces included, and returns None only when the
\* assignment is absent or no valid JSON object follows it.  (Stated for
\* objects whose keys hold no brace.)
C28_ExtractsValidObject ==
    (pc = "extracted" /\ Matches(html_text) # {})
        => \A j \in ValidEnds :
               LET parsed == json_loads(SubSeq(html_text, BraceStart, j)).value
               IN  KeysBraceFree(parsed) => result = parsed

----------------------------------------------------------------------------
(* compare_runs.py: diff and pct_change *)

\* A float is <<"float", num, den>>, a fraction in lowest terms with den > 0,
\* or <<"inf", sign>>, or <<"nan">>.
RECURSIVE Gcd(_, _)
Gcd(a, b) == IF b = 0 THEN a ELSE Gcd(b, a % b)

Abs(n) == IF n < 0 THEN -n ELSE n

Float(num, den) ==
    LET sgn == IF den < 0 THEN -1 ELSE 1
        g   == Gcd(Abs(num), Abs(den))
    IN  <<"float", (sgn * num) \div g, (sgn * den) \div g>>

NaN == <<"nan">>
Inf(sign) == <<"inf", sign>>

Sign(x) ==
    IF x[1] = "inf" THEN x[2]
    ELSE IF x[2] > 0 THEN 1 ELSE IF x[2] < 0 THEN -1 ELSE 0

\* `x == 0` on floats.
IsZero(x) == x[1] = "float" /\ x[2] = 0

\* `x - y` on floats.
Minus(x, y) ==
    IF x[1] = "nan" \/ y[1] = "nan" THEN NaN
    ELSE IF x[1] = "inf" /\ y[1] = "inf"
    THEN IF x[2] = y[2] THEN NaN ELSE x
    ELSE IF x[1] = "inf" THEN x
    ELSE IF y[1] = "inf" THEN Inf(-y[2])
    ELSE Float(x[2] * y[3] - y[2] * x[3], x[3] * y[3])

\* `x / y` on floats: ZeroDivisionError when y is zero.
Divide(x, y) ==
    IF IsZero(y) THEN [raised |-> TRUE, value |-> None]
    ELSE [raised |-> FALSE,
          value |->
              IF x[1] = "nan" \/ y[1] = "nan" THEN NaN
              ELSE IF x[1] = "inf"
              THEN IF y[1] = "inf" THEN NaN ELSE Inf(x[2] * Sign(y))
              ELSE IF y[1] = "inf" THEN Float(0, 1)
              ELSE Float(x[2] * y[3], x[3] * y[2])]

\* `x * 100.0` on floats.
Times100(x) ==
    IF x[1] = "float" THEN Float(x[2] * 100, x[3]) ELSE x

\* pct_change with the test `base == 0` left out.
pct_change_without_zero_test(b, c) ==
    IF b = None \/ c = None THEN [raised |-> FALSE, value |-> None]
    ELSE LET q == Divide(Minus(c, b), b)
         IN  IF q.raised THEN q
             ELSE [raised |-> FALSE, value |-> Times100(q.value)]

\* pct_change(base, curr)
pct_change(b, c) ==
    IF b = None \/ c = None THEN [raised |-> FALSE, value |-> None]
    ELSE IF IsZero(b) THEN [raised |-> FALSE, value |-> None]
    ELSE LET q == Divide(Minus(c, b), b)
         IN  IF q.raised THEN q
             ELSE [raised |-> FALSE, value |-> Times100(q.value)]

\* diff(base, curr)
diff(b, c) ==
    IF b = None \/ c = None THEN None ELSE Minus(c, b)

\* The values of the runs: no value, small integers, infinities, NaN.
Numbers ==
    { Float(n, 1) : n \in (-MaxNum)..MaxNum } \cup { Inf(1), Inf(-1), NaN }

InitNumbers ==
    /\ NoConfigRun
    /\ html_text = None
    /\ base_rows = None
    /\ curr_rows = None
    /\ base_html_rows = None
    /\ curr_html_rows = None
    /\ base \in Numbers \cup {None}
    /\ curr \in Numbers \cup {None}
    /\ result = None
    /\ raised = FALSE
    /\ pc = "start"

Diff ==
    /\ pc = "start"
    /\ result' = diff(base, curr)
    /\ raised' = FALSE
    /\ pc' = "diff"
    /\ UNCHANGED <<config_vars, compare_vars>>

PctChange ==
    /\ pc = "start"
    /\ result' = pct_change(base, curr).value
    /\ raised' = pct_change(base, curr).raised
    /\ pc' = "pct_change"
    /\ UNCHANGED <<config_vars, compare_vars>>

NextNumbers == Diff \/ PctChange

SpecNumbers == InitNumbers /\ [][NextNumbers]_vars

\* C30: missing values propagate as no value instead of errors: diff(base,
\* curr) is None iff base or curr is None, pct_change(base, curr) is None
\* iff base or curr is None or base is 0, and neither function raises.
C30_MissingValuesPropagate ==
    /\ pc = "diff" =>
           /\ ~raised
           /\ result = None <=> (base = None \/ curr = None)
    /\ pc = "pct_change" =>
           /\ ~raised
           /\ result = None <=> (base = None \/ curr = None \/ IsZero(base))

C30_Witness ==
    /\ pc = "pct_change"
    /\ base = Float(0, 1)
    /\ curr = Float(1, 1)
    /\ result = None
    /\ ~raised

----------------------------------------------------------------------------
(* compare_runs.py: index_rows and compare_reports in JSON mode *)

\* A Row is <<"row", name, type, data>>, data being the entries
\* <<field, float>>.
\* A row name or an output key is a sequence of pieces of text, so that
\* f"HTML:{key}" is a concatenation.
Aggregated == <<"Aggregated">>
AggregatedKey == <<"__Aggregated__">>
Row(rname, rtype, rdata) == <<"row", rname, rtype, rdata>>
name_of(r) == r[2]
data_of(r) == r[4]

\* sorted(S) for strings of a known universe, `order` listing the universe
\* in code-point order.
sorted_strings(order, S) == SelectSeq(order, LAMBDA x : x \in S)

\* The row names of the runs and the keys they can give, in code-point
\* order ('A' < 'H' < '_' < 'x').
NameOrder == <<Aggregated, <<"HTML:", "x">>, AggregatedKey, <<"x">>>>

\* important_fields, and the fields of the runs in code-point order.
important_fields ==
    <<"Requests/s", "Request Count", "Failure Count", "Average Response Time",
      "Median Response Time", "Min Response Time", "Max Response Time", "95%">>
FieldOrder ==
    <<"50%", "95%", "Average Response Time", "Failure Count",
      "Max Response Time", "Median Response Time", "Min Response Time",
      "Request Count", "Requests/s">>

\* index_rows(rows)
RECURSIVE IndexLoop(_, _)
IndexLoop(idx, rows) ==
    IF Len(rows) = 0 THEN idx
    ELSE LET r == Head(rows)
             key == IF name_of(r) = Aggregated THEN AggregatedKey ELSE name_of(r)
         IN  IndexLoop(DictSet(idx, key, r), Tail(rows))

index_rows(rows) == IndexLoop(<<>>, rows)

\* idx.get(key), and data.get(f) of a row that may be None.
Get(d, k) == IF DictHas(d, k) THEN DictGet(d, k) ELSE None
DataGet(r, f) == IF r = None THEN None ELSE Get(data_of(r), f)

\* The dict `entry` built for the rows b and c (None for an absent row).
EntryOf(b, c) ==
    LET fields == { important_fields[i] : i \in 1..Len(important_fields) }
                      \cup (IF b = None THEN {} ELSE DictKeys(data_of(b)))
                      \cup (IF c = None THEN {} ELSE DictKeys(data_of(c)))
        fs == sorted_strings(FieldOrder, fields)
    IN  [i \in 1..Len(fs) |->
            LET bb == DataGet(b, fs[i])
                cc == DataGet(c, fs[i])
            IN  <<fs[i], [base |-> bb, current |-> cc, diff |-> diff(bb, cc),
                          pct_change |-> pct_change(bb, cc).value]>>]

\* The loop `for key in all_keys` and the loop `for key in html_keys`.
RECURSIVE RowsLoop(_, _, _, _)
RowsLoop(out, keys, bidx, cidx) ==
    IF Len(keys) = 0 THEN out
    ELSE RowsLoop(DictSet(out, Head(keys),
                          EntryOf(Get(bidx, Head(keys)), Get(cidx, Head(keys)))),
                  Tail(keys), bidx, cidx)

RECURSIVE HtmlLoop(_, _, _, _)
HtmlLoop(out, keys, bhtml, chtml) ==
    IF Len(keys) = 0 THEN out
    ELSE HtmlLoop(DictSet(out, <<"HTML:">> \o Head(keys),
                          EntryOf(Get(bhtml, Head(keys)), Get(chtml, Head(keys)))),
                  Tail(keys), bhtml, chtml)

\* compare_reports(base_path, curr_path, as_json=True): the dict `out` that
\* is printed, from the rows load_report and load_html_feature_rows gave.
compare_reports(brows, crows, bhtml, chtml) ==
    LET base_idx == index_rows(brows)
        curr_idx == index_rows(crows)
        all_keys == sorted_strings(NameOrder, DictKeys(base_idx) \cup DictKeys(curr_idx))
        html_keys == sorted_strings(NameOrder, DictKeys(bhtml) \cup DictKeys(chtml))
    IN  HtmlLoop(RowsLoop(<<>>, all_keys, base_idx, curr_idx),
                 html_keys, bhtml, chtml)

\* The reports of the runs: up to MaxRows rows each, named Aggregated,
\* __Aggregated__ or x, with no data or a request count; one HTML feature x
\* or none.
RowNames == { Aggregated, AggregatedKey, <<"x">> }
RowData(n) == { <<>>, << <<"Request Count", Float(n, 1)>> >> }

RECURSIVE RowSeqs(_, _)
RowSeqs(n, len) ==
    IF len = 0 THEN { <<>> }
    ELSE LET shorter == RowSeqs(n, len - 1)
         IN  shorter \cup { Append(q, Row(nm, "GET", data)) :
                              q \in shorter, nm \in RowNames, data \in RowData(n) }

HtmlRows(n) ==
    { <<>>, << <<<<"x">>, Row(<<"x">>, "HTML", << <<"Requests/s", Float(n, 1)>> >>)>> >> }

InitCompare ==
    /\ NoConfigRun
    /\ html_text = None
    /\ base_rows \in RowSeqs(1, MaxRows)
    /\ curr_rows \in RowSeqs(2, MaxRows)
    /\ base_html_rows \in HtmlRows(1)
    /\ curr_html_rows \in HtmlRows(2)
    /\ base = None
    /\ curr = None
    /\ result = None
    /\ raised = FALSE
    /\ pc = "start"

CompareReports ==
    /\ pc = "start"
    /\ result' = compare_reports(base_rows, curr_rows, base_html_rows, curr_html_rows)
    /\ pc' = "compared"
    /\ UNCHANGED <<raised, config_vars, compare_vars>>

NextCompare == CompareReports

SpecCompare == InitCompare /\ [][NextCompare]_vars

\* The row names of a report; the output key the claim gives a row name.
NamesOf(rows) == { name_of(rows[i]) : i \in 1..Len(rows) }
KeyOf(nm) == IF nm = Aggregated THEN AggregatedKey ELSE nm

\* The entries of `out` that stand for rows of the reports.
RowKeys == { k \in DictKeys(result) : k[1] # "HTML:" }

\* C29: compare_reports in JSON mode emits exactly one entry for every row
\* name occurring in either report, the row named Aggregated keyed as
\* __Aggregated__; no two distinct row names share an entry; and for a name
\* present in only one report the missing side's value, the diff and the
\* pct_change of every field are null.
C29_OneEntryPerRowName ==
    pc = "compared" =>
        LET names == NamesOf(base_rows) \cup NamesOf(curr_rows)
        IN  /\ \A n \in names : DictHas(result, KeyOf(n))
            /\ RowKeys = { KeyOf(n) : n \in names }
            /\ Len(result) = Cardinality(DictKeys(result))
            /\ Cardinality(RowKeys) = Cardinality(names)
            /\ \A n \in names :
                   LET entry == DictGet(result, KeyOf(n))
                   IN  \A i \in 1..Len(entry) :
                           /\ n \notin NamesOf(base_rows) =>
                                  /\ entry[i][2].base = None
                                  /\ entry[i][2].diff = None
                                  /\ entry[i][2].pct_change = None
                           /\ n \notin NamesOf(curr_rows) =>
                                  /\ entry[i][2].current = None
                                  /\ entry[i][2].diff = None
                                  /\ entry[i][2].pct_change = None

============================================================================
